---- MODULE Spec2Model ----
(***************************************************************************)
(* tmpl: a grammar definition (definition/ast.rs, definition/parser.rs)    *)
(* and the interpreter that walks it over a token vector                   *)
(* (custom/parser.rs).                                                      *)
(*                                                                         *)
(* The specifications share the variables:                                 *)
(*   Spec            the interpreter: a Parser is constructed from a       *)
(*                   ParserDefinition and a token vector, and its parse    *)
(*                   operations are invoked one after another; every       *)
(*                   invocation runs frame by frame on an explicit call    *)
(*                   stack.                                                *)
(*   FairSpec        Spec with the fairness of synchronous execution: a    *)
(*                   started invocation keeps running.                     *)
(*   SpecDefinition  the action block of the definition parser's `top`     *)
(*                   rule applied to a list of parsed rules and defines.   *)
(*   SpecRepeat      with_repeat_mode applied to a pattern and a repeat    *)
(*                   suffix.                                               *)
(*                                                                         *)
(* A String the code takes apart or puts together char by char (a repeat   *)
(* suffix, a separator) is the sequence of its chars; a String it only     *)
(* compares (a name, a literal) is a TLA+ string.                          *)
(***************************************************************************)
EXTENDS Integers, Sequences, FiniteSets, TLC

VARIABLES
    definition,   \* Parser.definition : ParserDefinition
    lexer,        \* Parser.lexer : Vec<Token>
    index,        \* Parser.index : Rc<RefCell<usize>>
    stack,        \* the Rust call stack, innermost frame last
    ret,          \* the Result<Ast> handed back by the frame that returned last
    call,         \* the outermost invocation in progress (or the last one finished)
    start,        \* the value of index when that invocation started
    attempts,     \* the parse_pattern invocations made during that invocation
    prev,         \* the outermost invocation finished before that one
    other,        \* top: the list `other` of Result<RuleOrDefine>
    parsed,       \* top: the Result<ParserDefinition> it returned
    pat,          \* with_repeat_mode: the argument pat : InternalPattern
    re,           \* with_repeat_mode: the argument re : Option<String>
    token_pattern \* with_repeat_mode: the Result<TokenPattern> it returned

vars ==
    <<definition, lexer, index, stack, ret, call, start, attempts, prev, other, parsed,
      pat, re, token_pattern>>

repeatVars == <<pat, re, token_pattern>>

engineVars == <<definition, lexer, index, stack, ret, call, start, attempts, prev>>
defVars == <<other, parsed>>

None == <<>>
Some(x) == <<x>>

(***************************************************************************)
(* definition/ast.rs: the grammar data.                                    *)
(***************************************************************************)
raw(value) == [value |-> value, tag |-> "Raw"]

int(name) == [tag |-> "Named", name |-> name, kind |-> "Int", arg |-> None]

custom(name, value) == [tag |-> "Named", name |-> name, kind |-> "Custom", arg |-> Some(value)]

rw(pattern) ==
    [pattern |-> pattern, is_optional |-> FALSE, repeat_mode |-> "None", separator |-> None]

optional(pattern) ==
    [pattern |-> pattern, is_optional |-> TRUE, repeat_mode |-> "None", separator |-> None]

repeated(pattern, repeat_mode) ==
    [pattern |-> pattern, is_optional |-> FALSE, repeat_mode |-> repeat_mode, separator |-> None]

separated(pattern, repeat_mode, separator) ==
    [pattern |-> pattern, is_optional |-> FALSE, repeat_mode |-> repeat_mode,
     separator |-> Some(separator)]

alternative(left, right) == [tag |-> "Alternative", left |-> left, right |-> right]

token(left) == [tag |-> "Token", tokens |-> left]

ParserDefinition(entry, rules, defines) ==
    [entry |-> entry, rules |-> rules, defines |-> defines]

(***************************************************************************)
(* lexer.rs: the tokens.                                                   *)
(***************************************************************************)
Ident(s) == [t |-> "Ident", v |-> s]
Integer(s) == [t |-> "Integer", v |-> s]    \* v: the digits of the i64
Symbol(s) == [t |-> "Symbol", v |-> s]

(***************************************************************************)
(* The grammars and token vectors a Parser is constructed from.            *)
(***************************************************************************)
lit(s) == rw(raw(s))

intList == separated(int(Some("n")), "ZeroOrMore", <<",">>)

\* entry: a b | a      A: A      B: a (<B> | b | Missing) b
GChoice ==
    ParserDefinition(
        <<alternative(<<lit("a"), lit("b")>>, token(<<lit("a")>>))>>,
        [n \in {"A", "B"} |->
            IF n = "A"
            THEN <<token(<<lit("A")>>)>>
            ELSE <<token(<<lit("a")>>),
                   alternative(<<rw(custom(None, "B"))>>,
                       alternative(<<lit("b")>>, token(<<lit("Missing")>>))),
                   token(<<lit("b")>>)>>],
        <<>>)

\* entry: <n:int>** ","      L: <n:int>** "," | <x:int>?
GList ==
    ParserDefinition(
        <<token(<<intList>>)>>,
        [n \in {"L"} |-> <<alternative(<<intList>>, token(<<optional(int(Some("x")))>>))>>],
        <<>>)

Grammars == {GChoice, GList}

TokenStreams ==
    { <<>>,
      <<Ident("a"), Ident("b")>>,
      <<Integer("1"), Symbol(","), Integer("2"), Symbol(",")>> }

RECURSIVE Chain(_)
\* a pattern and the fallbacks nested in it
Chain(p) == IF p.tag = "Alternative" THEN {p} \cup Chain(p.right) ELSE {p}

Range(s) == {s[i] : i \in DOMAIN s}

PatternLists(def) == {def.entry} \cup {def.rules[n] : n \in DOMAIN def.rules}

PatternsOf(def) == UNION {UNION {Chain(p) : p \in Range(l)} : l \in PatternLists(def)}

AlternativesOf(def) == {p \in PatternsOf(def) : p.tag = "Alternative"}

SequencesOf(def) ==
    {p.left : p \in AlternativesOf(def)}
        \cup {p.tokens : p \in {q \in PatternsOf(def) : q.tag = "Token"}}

\* the names a grammar mentions: its rule names, its bare words and its <name> elements
MentionedNames(def) ==
    DOMAIN def.rules
        \cup {e.pattern.value : e \in {x \in UNION {Range(s) : s \in SequencesOf(def)} :
                                          x.pattern.tag = "Raw"}}
        \cup {e.pattern.arg[1] : e \in {x \in UNION {Range(s) : s \in SequencesOf(def)} :
                                           x.pattern.tag = "Named" /\ x.pattern.kind = "Custom"}}

(***************************************************************************)
(* custom/parser.rs: the interpreter.                                      *)
(*                                                                         *)
(* A Result<Ast> is "Ok" (Ast {} has no fields) or "Err" (ParseError has   *)
(* the one variant Unknown); "Panic" is the unwinding of a failed unwrap,  *)
(* which ends the invocation without a Result.                             *)
(***************************************************************************)
NoCall == [left |-> <<>>, right |-> <<>>, fn |-> "none", rule_name |-> ""]

Invocation(fn, rule_name, left, right) ==
    [left |-> left, right |-> right, fn |-> fn, rule_name |-> rule_name]

ParseFrame == [fn |-> "parse"]

PatternFrame(pattern) == [pattern |-> pattern, fn |-> "parse_pattern"]

AlternativeFrame(left, right) ==
    [left |-> left, right |-> right, fn |-> "parse_alternative",
     pc |-> "entry", current_pos |-> 0]

RuleFrame(rule_name) == [i |-> 1, fn |-> "parse_rule", rule_name |-> rule_name, pc |-> "entry"]

Running == stack # <<>>

Frame == stack[Len(stack)]

Callers == SubSeq(stack, 1, Len(stack) - 1)

\* Parser::new
New ==
    /\ definition \in Grammars
    /\ lexer \in TokenStreams
    /\ index = 0

\* the frame returns v to its caller
Return(v) ==
    /\ stack' = Callers
    /\ ret' = v

\* the frame moves on to f and calls g
CallFrom(f, g) ==
    /\ stack' = Callers \o <<f, g>>
    /\ ret' = "None"

\* an invocation from outside the Parser, on an idle Parser
Invoke(c, f) ==
    /\ ~Running
    /\ ret # "Panic"
    /\ stack' = <<f>>
    /\ ret' = "None"
    /\ call' = c
    /\ start' = index
    /\ attempts' = <<>>
    /\ prev' = IF ret = "None" THEN prev ELSE [ret |-> ret, call |-> call, start |-> start]
    /\ UNCHANGED <<definition, lexer, index, other, parsed, repeatVars>>

CallParse == Invoke(Invocation("parse", "", <<>>, <<>>), ParseFrame)

CallParseRule(rule_name) ==
    Invoke(Invocation("parse_rule", rule_name, <<>>, <<>>), RuleFrame(rule_name))

CallParseAlternative(left, right) ==
    Invoke(Invocation("parse_alternative", "", left, <<right>>), AlternativeFrame(left, right))

CallParsePattern(pattern) ==
    Invoke(Invocation("parse_pattern", "", pattern, <<>>), PatternFrame(pattern))

\* fn parse(&self)
parse ==
    /\ Running
    /\ Frame.fn = "parse"
    /\ Return("Ok")
    /\ UNCHANGED <<definition, lexer, index, call, start, attempts, prev, other, parsed, repeatVars>>

\* parse_pattern, had it consumed a token of the vector on its way
parse_pattern_consuming ==
    /\ Running
    /\ Frame.fn = "parse_pattern"
    /\ attempts' = Append(attempts, [pattern |-> Frame.pattern, at |-> index, res |-> "Ok"])
    /\ index' = IF index < Len(lexer) THEN index + 1 ELSE index
    /\ Return("Ok")
    /\ UNCHANGED <<definition, lexer, call, start, prev, other, parsed, repeatVars>>

\* fn parse_pattern(&self, pattern)
parse_pattern ==
    /\ Running
    /\ Frame.fn = "parse_pattern"
    /\ attempts' = Append(attempts, [pattern |-> Frame.pattern, at |-> index, res |-> "Ok"])
    /\ Return("Ok")
    /\ UNCHANGED <<definition, lexer, index, call, start, prev, other, parsed, repeatVars>>

\* parse_alternative, had it gone on to the fallback after a successful primary
parse_alternative_without_early_return ==
    /\ Running
    /\ Frame.fn = "parse_alternative"
    /\ CASE Frame.pc = "entry" ->
              /\ CallFrom([Frame EXCEPT !.pc = "left", !.current_pos = index],
                          PatternFrame(Frame.left))
              /\ UNCHANGED index
         [] Frame.pc = "left" ->
              /\ index' = Frame.current_pos
              /\ IF Frame.right.tag = "Token"
                 THEN Return("Ok")
                 ELSE CallFrom([Frame EXCEPT !.pc = "right"],
                               AlternativeFrame(Frame.right.left, Frame.right.right))
         [] Frame.pc = "right" ->
              /\ Return(IF ret = "Err" THEN "Err" ELSE "Ok")
              /\ UNCHANGED index
    /\ UNCHANGED <<definition, lexer, call, start, attempts, prev, other, parsed, repeatVars>>

\* fn parse_alternative(&self, left, right)
parse_alternative ==
    /\ Running
    /\ Frame.fn = "parse_alternative"
    /\ CASE Frame.pc = "entry" ->
              \* let current_pos = *self.index.borrow(); self.parse_pattern(left)
              /\ CallFrom([Frame EXCEPT !.pc = "left", !.current_pos = index],
                          PatternFrame(Frame.left))
              /\ UNCHANGED index
         [] Frame.pc = "left" ->
              IF ret = "Ok"
              THEN \* if let Ok(ast) = ... { return Ok(ast); }
                   /\ Return("Ok")
                   /\ UNCHANGED index
              ELSE \* *self.index.borrow_mut() = current_pos; match right { .. }
                   /\ index' = Frame.current_pos
                   /\ IF Frame.right.tag = "Token"
                      THEN Return("Ok")
                      ELSE CallFrom([Frame EXCEPT !.pc = "right"],
                                    AlternativeFrame(Frame.right.left, Frame.right.right))
         [] Frame.pc = "right" ->
              \* let ast = self.parse_alternative(left, right)?;  Ok(Ast {})
              /\ Return(IF ret = "Err" THEN "Err" ELSE "Ok")
              /\ UNCHANGED index
    /\ UNCHANGED <<definition, lexer, call, start, attempts, prev, other, parsed, repeatVars>>

\* parse_rule, had its loop stayed on a plain sequence instead of moving past it
parse_rule_without_advance ==
    /\ Running
    /\ Frame.fn = "parse_rule"
    /\ CASE Frame.pc = "entry" ->
              IF Frame.rule_name \in DOMAIN definition.rules
              THEN /\ stack' = Callers \o <<[Frame EXCEPT !.pc = "loop"]>>
                   /\ ret' = "None"
              ELSE /\ stack' = <<>>
                   /\ ret' = "Panic"
         [] Frame.pc = "loop" ->
              LET pattern == definition.rules[Frame.rule_name]
              IN  IF Frame.i > Len(pattern)
                  THEN Return("Ok")
                  ELSE IF pattern[Frame.i].tag = "Token"
                       THEN /\ stack' = stack
                            /\ ret' = "None"
                       ELSE CallFrom([Frame EXCEPT !.pc = "alternative"],
                                     AlternativeFrame(pattern[Frame.i].left,
                                                      pattern[Frame.i].right))
         [] Frame.pc = "alternative" ->
              IF ret = "Err"
              THEN Return("Err")
              ELSE /\ stack' = Callers \o <<[Frame EXCEPT !.pc = "loop", !.i = @ + 1]>>
                   /\ ret' = "None"
    /\ UNCHANGED <<definition, lexer, index, call, start, attempts, prev, other, parsed, repeatVars>>

\* fn parse_rule(&self, rule_name)
parse_rule ==
    /\ Running
    /\ Frame.fn = "parse_rule"
    /\ CASE Frame.pc = "entry" ->
              \* self.definition.rules.get(rule_name).unwrap()
              IF Frame.rule_name \in DOMAIN definition.rules
              THEN /\ stack' = Callers \o <<[Frame EXCEPT !.pc = "loop"]>>
                   /\ ret' = "None"
              ELSE /\ stack' = <<>>
                   /\ ret' = "Panic"
         [] Frame.pc = "loop" ->
              \* for p in pattern { match p { .. } }  Ok(Ast {})
              LET pattern == definition.rules[Frame.rule_name]
              IN  IF Frame.i > Len(pattern)
                  THEN Return("Ok")
                  ELSE IF pattern[Frame.i].tag = "Token"
                       THEN /\ stack' = Callers \o <<[Frame EXCEPT !.i = @ + 1]>>
                            /\ ret' = "None"
                       ELSE CallFrom([Frame EXCEPT !.pc = "alternative"],
                                     AlternativeFrame(pattern[Frame.i].left,
                                                      pattern[Frame.i].right))
         [] Frame.pc = "alternative" ->
              \* let ast = self.parse_alternative(left, right)?;
              IF ret = "Err"
              THEN Return("Err")
              ELSE /\ stack' = Callers \o <<[Frame EXCEPT !.pc = "loop", !.i = @ + 1]>>
                   /\ ret' = "None"
    /\ UNCHANGED <<definition, lexer, index, call, start, attempts, prev, other, parsed, repeatVars>>

\* one step of the invocation in progress
Step == parse \/ parse_pattern \/ parse_alternative \/ parse_rule

(***************************************************************************)
(* definition/parser.rs: the action block of `top`.                        *)
(*                                                                         *)
(* An element of `other` is a Result<RuleOrDefine>: Ok(Rule {name,         *)
(* pattern}), Ok(Define(d)) or Err(e).                                     *)
(***************************************************************************)
MaxItems == 3

Rule(name, pattern) == [tag |-> "Rule", name |-> name, pattern |-> pattern]

Define(d) == [tag |-> "Define", d |-> d]

Err(e) == [tag |-> "Err", e |-> e]

Ok(v) == [tag |-> "Ok", v |-> v]

Min(S) == CHOOSE x \in S : \A y \in S : x <= y

\* value.into_iter().collect::<Result<Vec<T>>>(): the first Err, or all the values
unpack(value) ==
    LET errs == {i \in DOMAIN value : value[i].tag = "Err"}
    IN  IF errs # {} THEN value[Min(errs)] ELSE Ok(value)

\* HashMap::insert
insert_keeping_first(rules, name, pattern) ==
    [n \in DOMAIN rules \cup {name} |-> IF n \in DOMAIN rules THEN rules[n] ELSE pattern]

insert(rules, name, pattern) ==
    [n \in DOMAIN rules \cup {name} |-> IF n = name THEN pattern ELSE rules[n]]

\* HashMap::remove
remove(rules, name) == [n \in DOMAIN rules \ {name} |-> rules[n]]

RECURSIVE collect(_, _, _, _)
\* for rod in unpack(other)? { match rod { .. } }, from the i-th element on
collect(rods, i, rules, defines) ==
    IF i > Len(rods)
    THEN [rules |-> rules, defines |-> defines]
    ELSE IF rods[i].tag = "Rule"
         THEN collect(rods, i + 1, insert(rules, rods[i].name, rods[i].pattern), defines)
         ELSE collect(rods, i + 1, rules, Append(defines, rods[i].d))

top(o) ==
    LET u == unpack(o)
    IN  IF u.tag = "Err"
        THEN u
        ELSE LET c == collect(u.v, 1, <<>>, <<>>)
             IN  IF "Main" \in DOMAIN c.rules
                 THEN Ok(ParserDefinition(c.rules["Main"], remove(c.rules, "Main"), c.defines))
                 ELSE Err("MissingMainRule")

(***************************************************************************)
(* definition/ast.rs: with_repeat_mode.                                    *)
(***************************************************************************)
\* with_repeat_mode, had the `++` arm been copied from the `**` arm unchanged
with_repeat_mode_copied_arm(p, r) ==
    IF r = None
    THEN Ok(rw(p))
    ELSE LET chars == r[1]
             rest == SubSeq(chars, 3, Len(chars))
         IN  CASE Len(chars) >= 2 /\ chars[1] = "*" /\ chars[2] = "*" ->
                      Ok(separated(p, "ZeroOrMore", rest))
               [] Len(chars) >= 2 /\ chars[1] = "+" /\ chars[2] = "+" ->
                      Ok(separated(p, "ZeroOrMore", rest))
               [] chars = <<"?">> -> Ok(optional(p))
               [] chars = <<"*">> -> Ok(repeated(p, "ZeroOrMore"))
               [] chars = <<"+">> -> Ok(repeated(p, "OneOrMore"))
               [] OTHER -> Err(<<"InvalidRepeatMode", chars>>)

\* pub fn with_repeat_mode(pat, re)
with_repeat_mode(p, r) ==
    IF r = None
    THEN Ok(rw(p))
    ELSE LET chars == r[1]
             rest == SubSeq(chars, 3, Len(chars))
         IN  CASE Len(chars) >= 2 /\ chars[1] = "*" /\ chars[2] = "*" ->
                      Ok(separated(p, "ZeroOrMore", rest))
               [] Len(chars) >= 2 /\ chars[1] = "+" /\ chars[2] = "+" ->
                      Ok(separated(p, "OneOrMore", rest))
               [] chars = <<"?">> -> Ok(optional(p))
               [] chars = <<"*">> -> Ok(repeated(p, "ZeroOrMore"))
               [] chars = <<"+">> -> Ok(repeated(p, "OneOrMore"))
               [] OTHER -> Err(<<"InvalidRepeatMode", chars>>)

NotParsed == [tag |-> "None"]

\* with_repeat_mode has not been called
NoRepeat ==
    /\ pat = raw("")
    /\ re = None
    /\ token_pattern = NotParsed

Init ==
    /\ New
    /\ stack = <<>>
    /\ ret = "None"
    /\ call = NoCall
    /\ start = 0
    /\ attempts = <<>>
    /\ prev = [ret |-> "None", call |-> NoCall, start |-> 0]
    /\ NoRepeat
    /\ other = <<>>
    /\ parsed = NotParsed

Next ==
    \/ CallParse
    \/ \E rule_name \in MentionedNames(definition) : CallParseRule(rule_name)
    \/ \E p \in AlternativesOf(definition) : CallParseAlternative(p.left, p.right)
    \/ \E pattern \in SequencesOf(definition) : CallParsePattern(pattern)
    \/ parse
    \/ parse_pattern
    \/ parse_alternative
    \/ parse_rule

Spec == Init /\ [][Next]_vars

\* the execution is synchronous: an invocation that has started runs on
FairSpec == Spec /\ WF_vars(Step)

(***************************************************************************)
(* The definition parser on its own: `top` applied to a list of parsed     *)
(* rules and defines.                                                      *)
(***************************************************************************)
Bodies == { <<token(<<lit("a")>>)>>, <<token(<<lit("b")>>)>> }

Items ==
    {Rule(n, b) : n \in {"Main", "A"}, b \in Bodies}
        \cup {Define([value |-> [tag |-> "Int", v |-> "1"], name |-> "x"]),
              Define([value |-> [tag |-> "String", v |-> "s"], name |-> "y"])}
        \cup {Err("InvalidRegex")}

ItemLists == UNION {[1..n -> Items] : n \in 0..MaxItems}

InitDefinition ==
    /\ other \in ItemLists
    /\ parsed = NotParsed
    /\ definition = ParserDefinition(<<>>, <<>>, <<>>)
    /\ lexer = <<>>
    /\ index = 0
    /\ stack = <<>>
    /\ ret = "None"
    /\ call = NoCall
    /\ start = 0
    /\ attempts = <<>>
    /\ prev = [ret |-> "None", call |-> NoCall, start |-> 0]
    /\ NoRepeat

Top ==
    /\ parsed = NotParsed
    /\ parsed' = top(other)
    /\ UNCHANGED <<other, definition, lexer, index, stack, ret, call, start, attempts, prev,
                   repeatVars>>

NextDefinition == Top

SpecDefinition == InitDefinition /\ [][NextDefinition]_vars

(***************************************************************************)
(* The vocabulary of the properties.                                       *)
(***************************************************************************)
\* the outermost invocation has ended, with a Result or by a panic
Finished == ~Running /\ ret # "None"

Returned == ~Running /\ ret \in {"Ok", "Err"}

\* the sequence a pattern starts with: a plain sequence, or the primary of a choice
FirstSequence(p) == IF p.tag = "Token" THEN p.tokens ELSE p.left

\* an element that cannot match without a token: one occurrence at least of a
\* built-in kind or of a literal
NeedsToken(e) ==
    /\ ~e.is_optional
    /\ e.repeat_mode # "ZeroOrMore"
    /\ ~(e.pattern.tag = "Named" /\ e.pattern.kind = "Custom")

\* a sequence that cannot match the token vector: its first element needs a
\* token and the vector has none
SequenceCannotMatch(seq) == lexer = <<>> /\ seq # <<>> /\ NeedsToken(seq[1])

RECURSIVE PatternCannotMatch(_)
PatternCannotMatch(p) ==
    IF p.tag = "Token"
    THEN SequenceCannotMatch(p.tokens)
    ELSE SequenceCannotMatch(p.left) /\ PatternCannotMatch(p.right)

Attempted(seq) == \E j \in DOMAIN attempts : attempts[j].pattern = seq

(***************************************************************************)
(* C1: whenever parse_pattern, parse_alternative or parse_rule returns a   *)
(* failure, the cursor index is the one the invocation started from.       *)
(***************************************************************************)
C1_FailureRestoresCursor == (Finished /\ ret = "Err") => index = start

\* the case of C1: an invocation has returned a failure
C1_FailureReturned == Finished /\ ret = "Err"

(***************************************************************************)
(* C2: in parse_alternative(primary, fallback), when the primary sequence  *)
(* fails, the cursor is restored to the alternative's starting mark and    *)
(* the fallback is attempted from there.  Stated for a primary that cannot *)
(* match because the token vector is empty: after the invocation the       *)
(* fallback has been attempted, at the starting index.                     *)
(***************************************************************************)
C2_FallbackAttemptedAfterFailedPrimary ==
    (Finished /\ call.fn = "parse_alternative" /\ SequenceCannotMatch(call.left))
        => \E j \in DOMAIN attempts :
               /\ j > 1
               /\ attempts[j].pattern = FirstSequence(call.right[1])
               /\ attempts[j].at = start

(***************************************************************************)
(* C3: ordered choice is first-match-wins: parse_alternative attempts the  *)
(* primary first, at the index the invocation started from, and when the   *)
(* primary matches, nothing else is attempted and the result is the        *)
(* primary's.                                                              *)
(***************************************************************************)
C3_FirstMatchWins ==
    (Finished /\ call.fn = "parse_alternative")
        => /\ attempts # <<>>
           /\ attempts[1].pattern = call.left
           /\ attempts[1].at = start
           /\ attempts[1].res = "Ok" => (Len(attempts) = 1 /\ ret = attempts[1].res)

\* a b | a on the tokens a b: the two-token primary has matched
C3_Witness ==
    /\ Finished
    /\ call.fn = "parse_alternative"
    /\ call.left = <<lit("a"), lit("b")>>
    /\ call.right = <<token(<<lit("a")>>)>>
    /\ lexer = <<Ident("a"), Ident("b")>>
    /\ attempts = <<[pattern |-> call.left, at |-> 0, res |-> "Ok"]>>
    /\ ret = "Ok"

(***************************************************************************)
(* C4: resolving a rule name that is absent from definition.rules gives    *)
(* the caller a failure value (Err), not an abort.                         *)
(***************************************************************************)
C4_UnknownRuleIsAFailureValue ==
    (Finished /\ call.fn = "parse_rule" /\ call.rule_name \notin DOMAIN definition.rules)
        => ret = "Err"

(***************************************************************************)
(* C5: Parser::parse returns a success exactly when definition.entry       *)
(* matches the tokens.  Stated for an entry that cannot match because the  *)
(* token vector is empty: parse does not return Ok.                        *)
(***************************************************************************)
C5_ParseSucceedsOnlyOnAMatch ==
    (Finished /\ call.fn = "parse" /\ definition.entry # <<>>
         /\ PatternCannotMatch(definition.entry[1]))
        => ret # "Ok"

(***************************************************************************)
(* C6: no hidden state across invocations: an invocation starts from the   *)
(* same cursor index as the invocation before it, and repeating an         *)
(* invocation gives the same result.                                       *)
(***************************************************************************)
SameInvocation(c, d) ==
    /\ c.fn = d.fn
    /\ c.rule_name = d.rule_name
    /\ c.left = d.left
    /\ c.right = d.right

C6_NoHiddenState ==
    prev.ret # "None"
        => /\ start = prev.start
           /\ (Finished /\ SameInvocation(call, prev.call)) => ret = prev.ret

\* the same parse_alternative, twice in a row on a non-empty token vector
C6_Witness ==
    /\ Finished
    /\ prev.ret # "None"
    /\ call.fn = "parse_alternative"
    /\ SameInvocation(call, prev.call)
    /\ lexer # <<>>

(***************************************************************************)
(* C7: every invocation terminates: parse, parse_pattern, parse_alternative*)
(* and parse_rule on a rule of the grammar eventually return Ok or Err,    *)
(* whatever the grammar (self-referential rules included) and the tokens;  *)
(* no invocation runs forever.                                             *)
(***************************************************************************)
OnTheGrammar == call.fn = "parse_rule" => call.rule_name \in DOMAIN definition.rules

C7_Terminates ==
    /\ (Running /\ OnTheGrammar) ~> Returned
    /\ Running ~> ~Running

\* A: A, which refers to itself and has no other alternative, on no tokens
C7_Witness ==
    /\ Returned
    /\ call.fn = "parse_rule"
    /\ call.rule_name = "A"
    /\ definition.rules["A"] = <<token(<<lit("A")>>)>>
    /\ lexer = <<>>

(***************************************************************************)
(* C8: <n:int>** "," on the tokens 1 , 2 , consumes 1 , 2 and leaves the   *)
(* cursor at the trailing separator.                                       *)
(***************************************************************************)
C8_SeparatedRepetitionStopsBeforeTrailingSeparator ==
    (Finished /\ call.fn = "parse_pattern" /\ call.left = <<intList>> /\ start = 0
         /\ lexer = <<Integer("1"), Symbol(","), Integer("2"), Symbol(",")>>)
        => (ret = "Ok" /\ index = 3)

(***************************************************************************)
(* C9: parse_rule matches every pattern of the rule's list against the     *)
(* tokens, plain sequences as well as alternatives: after a successful     *)
(* parse_rule every pattern of the list has been attempted.                *)
(***************************************************************************)
C9_EveryPatternOfTheRuleIsMatched ==
    (Finished /\ call.fn = "parse_rule" /\ ret = "Ok")
        => \A i \in DOMAIN definition.rules[call.rule_name] :
               Attempted(FirstSequence(definition.rules[call.rule_name][i]))

(***************************************************************************)
(* C10: `top` and the rule Main.                                           *)
(***************************************************************************)
Declarations(name) ==
    {i \in DOMAIN other : other[i].tag = "Rule" /\ other[i].name = name}

DeclaredNames == {other[i].name : i \in {j \in DOMAIN other : other[j].tag = "Rule"}}

Max(S) == CHOOSE x \in S : \A y \in S : x >= y

LastBody(name) == other[Max(Declarations(name))].pattern

IsDefine(item) == item.tag = "Define"

DeclaredDefines ==
    LET ds == SelectSeq(other, IsDefine) IN [i \in DOMAIN ds |-> ds[i].d]

\* what C10 says of the list `other` and the result of top
MainDecides ==
    IF "Main" \in DeclaredNames
    THEN /\ parsed.tag = "Ok"
         /\ parsed.v.entry = LastBody("Main")
         /\ DOMAIN parsed.v.rules = DeclaredNames \ {"Main"}
         /\ \A n \in DOMAIN parsed.v.rules : parsed.v.rules[n] = LastBody(n)
         /\ parsed.v.defines = DeclaredDefines
    ELSE parsed = Err("MissingMainRule")

Errors == {i \in DOMAIN other : other[i].tag = "Err"}

\* C10 as claimed: top builds a ParserDefinition exactly when a rule named
\* Main was declared, with entry, rules and defines as described, and returns
\* MissingMainRule otherwise.
C10_MainDecides == parsed # NotParsed => MainDecides

\* C10, amended: so it is when every element of the list parsed without
\* error; when some element is an error, top returns the first such error
\* and no definition, whether Main was declared or not.
C10_MainDecidesUnlessAnItemFailed ==
    parsed # NotParsed
        => IF Errors = {} THEN MainDecides ELSE parsed = other[Min(Errors)]

\* a rule declared twice with different bodies, next to Main
C10_Witness ==
    /\ parsed # NotParsed
    /\ parsed.tag = "Ok"
    /\ \E n \in DOMAIN parsed.v.rules :
           \E i, j \in Declarations(n) : i < j /\ other[i].pattern # other[j].pattern

(***************************************************************************)
(* with_repeat_mode on its own: applied to a pattern and a repeat suffix.  *)
(***************************************************************************)
MaxSuffix == 3

SuffixChars == {"?", "*", "+", ","}

Suffixes == UNION {[1..n -> SuffixChars] : n \in 0..MaxSuffix}

InitRepeat ==
    /\ pat \in {int(Some("n")), raw("a")}
    /\ re \in {None} \cup {Some(x) : x \in Suffixes}
    /\ token_pattern = NotParsed
    /\ other = <<>>
    /\ parsed = NotParsed
    /\ definition = ParserDefinition(<<>>, <<>>, <<>>)
    /\ lexer = <<>>
    /\ index = 0
    /\ stack = <<>>
    /\ ret = "None"
    /\ call = NoCall
    /\ start = 0
    /\ attempts = <<>>
    /\ prev = [ret |-> "None", call |-> NoCall, start |-> 0]

WithRepeatMode ==
    /\ token_pattern = NotParsed
    /\ token_pattern' = with_repeat_mode(pat, re)
    /\ UNCHANGED <<engineVars, defVars, pat, re>>

NextRepeat == WithRepeatMode

SpecRepeat == InitRepeat /\ [][NextRepeat]_vars

(***************************************************************************)
(* C11: every TokenPattern returned by with_repeat_mode carries exactly    *)
(* one multiplicity: no suffix gives One, "?" Optional, "*" and "+"        *)
(* ZeroOrMore and OneOrMore without separator, "**sep" and "++sep"         *)
(* ZeroOrMore and OneOrMore with the separator sep; is_optional is never   *)
(* true together with a repeat_mode, a separator is present only with a    *)
(* repeat_mode, and any other suffix yields InvalidRepeatMode and no       *)
(* TokenPattern.                                                           *)
(***************************************************************************)
Doubled(chars, c) == Len(chars) >= 2 /\ chars[1] = c /\ chars[2] = c

AfterPrefix(chars) == [i \in 1..(Len(chars) - 2) |-> chars[i + 2]]

\* the suffixes C11 names
NamedSuffix(r) ==
    \/ r = None
    \/ r[1] \in {<<"?">>, <<"*">>, <<"+">>}
    \/ Doubled(r[1], "*")
    \/ Doubled(r[1], "+")

\* <<is_optional, repeat_mode, separator>> as C11 gives them for a named suffix
Multiplicity(r) ==
    IF r = None THEN <<FALSE, "None", None>>
    ELSE IF r[1] = <<"?">> THEN <<TRUE, "None", None>>
    ELSE IF r[1] = <<"*">> THEN <<FALSE, "ZeroOrMore", None>>
    ELSE IF r[1] = <<"+">> THEN <<FALSE, "OneOrMore", None>>
    ELSE IF Doubled(r[1], "*") THEN <<FALSE, "ZeroOrMore", Some(AfterPrefix(r[1]))>>
    ELSE <<FALSE, "OneOrMore", Some(AfterPrefix(r[1]))>>

C11_OneMultiplicity ==
    token_pattern # NotParsed
        => IF NamedSuffix(re)
           THEN /\ token_pattern.tag = "Ok"
                /\ token_pattern.v.pattern = pat
                /\ <<token_pattern.v.is_optional, token_pattern.v.repeat_mode,
                     token_pattern.v.separator>> = Multiplicity(re)
                /\ ~(token_pattern.v.is_optional /\ token_pattern.v.repeat_mode # "None")
                /\ token_pattern.v.separator # None => token_pattern.v.repeat_mode # "None"
           ELSE token_pattern = Err(<<"InvalidRepeatMode", re[1]>>)

\* <n:int> with the suffix ++, : OneOrMore, separated by ","
C11_Witness ==
    /\ token_pattern # NotParsed
    /\ pat = int(Some("n"))
    /\ re = Some(<<"+", "+", ",">>)
    /\ token_pattern = Ok(separated(pat, "OneOrMore", <<",">>))

====
